---- MODULE Spec2Model ----
(***************************************************************************)
(* Model of src/pages/index.tsx: the Home page of zkevm-cashapp.            *)
(*                                                                         *)
(* The state is the React state of Home (search, selectedProfile, amount,  *)
(* loadingPay), the values its hooks return (address, wrongNetwork,        *)
(* balance, sdk, debouncedSearch, profiles, loadingProfiles), the calls it *)
(* has made to its collaborators (toast, switchChain, the search query,    *)
(* wallet.transfer) and the runs of handlePay suspended at their await.    *)
(*                                                                         *)
(* Optional values (null / undefined) are sequences of length 0 or 1.      *)
(* Text the code parses (amount) is a sequence of one-character strings.   *)
(***************************************************************************)
EXTENDS Integers, Sequences, FiniteSets, TLC

VARIABLES
    address,          \* useAddress(): None or Some(wallet address)
    wrongNetwork,     \* useNetworkMismatch()
    balance,          \* useBalance().data: None (undefined) or Some(value in wei)
    sdk,              \* useSDK() is defined
    switchRequest,    \* argument of the switchChain call not yet settled
    search,           \* useState: search text
    debouncedSearch,  \* useDebounce(search, 500)[0]
    timer,            \* the debounce timeout: None, or Some(ms since it was armed)
    query,            \* the query last handed to useSearchProfiles
    profiles,         \* useSearchProfiles().data
    loadingProfiles,  \* useSearchProfiles().loading
    selectedProfile,  \* useState: None or Some(profile)
    amount,           \* useState: amount text
    loadingPay,       \* useState: pay in progress
    calls,            \* runs of handlePay suspended at await wallet.transfer(...)
    notified          \* the toast() call of the latest step of handlePay

vars == <<address, wrongNetwork, balance, sdk, switchRequest, search,
          debouncedSearch, timer, query, profiles, loadingProfiles,
          selectedProfile, amount, loadingPay, calls, notified>>

walletVars == <<address, wrongNetwork, balance, sdk, switchRequest>>
searchVars == <<search, debouncedSearch, timer, query, profiles, loadingProfiles>>
payVars    == <<selectedProfile, amount, loadingPay, calls, notified>>

None == <<>>
Some(x) == <<x>>

(***************************************************************************)
(* Bounds of the model.                                                    *)
(***************************************************************************)
\* Decimals of one ether in the model. ethers' parseEther uses 18; the model
\* scales the unit down so that wei amounts stay machine integers.
Decimals == 2
\* Milliseconds that pass in one Tick of the clock.
TickMs == 250
\* Runs of handlePay that may be suspended at once (caps the calls sequence).
MaxCalls == 2

(***************************************************************************)
(* Program constants.                                                      *)
(***************************************************************************)
\* useDebounce(search, 500)
DebounceDelay == 500
\* chainId of PolygonZkevmTestnet (@thirdweb-dev/chains)
PolygonZkevmTestnet == 1442
DEVELOPMENT_CHAIN == PolygonZkevmTestnet
PRODUCTION_CHAIN == PolygonZkevmTestnet
\* CHAIN = IS_DEV_ENV ? DEVELOPMENT_CHAIN : PRODUCTION_CHAIN
CHAIN(isDevEnv) == IF isDevEnv THEN DEVELOPMENT_CHAIN ELSE PRODUCTION_CHAIN

(***************************************************************************)
(* Inputs.                                                                 *)
(***************************************************************************)
Wallets == {"0xW"}
Profiles == {[id |-> "p1", ownedBy |-> "0xA"], [id |-> "p2", ownedBy |-> "0xB"]}
SearchTexts == {"", "a"}
TxHashes == {"0xabc"}
\* answers of the search collaborator
SearchResults == {{}, Profiles}
\* texts typed into the amount input
AmountTexts == { <<>>, <<"0">>, <<"1">>, <<"2">>, <<"-", "1">>, <<".", "5">> }
\* further texts handlePay is called on directly
MoreAmountTexts ==
    { <<"1", ".">>, <<".">>, <<"-">>, <<"1", "x">>, <<"1", ".", "2", ".">>,
      <<"-", ".", "5", "0">>, <<"0", ".", "0", "0", "1">>,
      <<"0", ".", "0", "0", "0", "1">> }

RECURSIVE Pow10(_)
Pow10(n) == IF n = 0 THEN 1 ELSE 10 * Pow10(n - 1)
\* one ether in wei
Multiplier == Pow10(Decimals)
\* balances the wallet may report, and further ones handlePay is called with
BalanceValues == {Multiplier}
MoreBalanceValues == {0, Multiplier \div 2, 2 * Multiplier}

(***************************************************************************)
(* ethers.utils.parseEther(amount) (line 59), i.e. parseFixed(value, 18):  *)
(* Some(wei) when it returns, None when it throws.                         *)
(***************************************************************************)
DigitChars == {"0", "1", "2", "3", "4", "5", "6", "7", "8", "9"}
DigitValue(c) ==
    CASE c = "0" -> 0 [] c = "1" -> 1 [] c = "2" -> 2 [] c = "3" -> 3
      [] c = "4" -> 4 [] c = "5" -> 5 [] c = "6" -> 6 [] c = "7" -> 7
      [] c = "8" -> 8 [] c = "9" -> 9

\* value.match(/^-?[0-9.]+$/)
MatchesDecimal(v) ==
    LET body == IF v # <<>> /\ v[1] = "-" THEN Tail(v) ELSE v
    IN  /\ body # <<>>
        /\ \A i \in 1..Len(body) : body[i] \in DigitChars \cup {"."}

\* BigNumber.from(<a string of decimal digits>)
RECURSIVE DigitsToNat(_)
DigitsToNat(d) ==
    IF d = <<>> THEN 0
    ELSE 10 * DigitsToNat(SubSeq(d, 1, Len(d) - 1)) + DigitValue(d[Len(d)])

\* while (fraction[fraction.length - 1] === "0") fraction = fraction.substring(...)
RECURSIVE TrimTrailingZeros(_)
TrimTrailingZeros(f) ==
    IF f # <<>> /\ f[Len(f)] = "0"
    THEN TrimTrailingZeros(SubSeq(f, 1, Len(f) - 1))
    ELSE f

parseEther(value) ==
    IF ~MatchesDecimal(value) THEN None                 \* "invalid decimal value"
    ELSE
      LET negative == value[1] = "-"
          v     == IF negative THEN Tail(value) ELSE value
          dots  == {i \in 1..Len(v) : v[i] = "."}
          dot   == IF dots = {} THEN Len(v) + 1
                   ELSE CHOOSE i \in dots : \A j \in dots : i <= j
          comp0 == SubSeq(v, 1, dot - 1)
          comp1 == SubSeq(v, dot + 1, Len(v))
          whole == IF comp0 = <<>> THEN <<"0">> ELSE comp0
          fraction == TrimTrailingZeros(IF comp1 = <<>> THEN <<"0">> ELSE comp1)
          wei   == DigitsToNat(whole) * Multiplier
                   + DigitsToNat(fraction) * Pow10(Decimals - Len(fraction))
      IN  IF v = <<".">> THEN None                      \* "missing value"
          ELSE IF Cardinality(dots) > 1 THEN None       \* "too many decimal points"
          ELSE IF Len(fraction) > Decimals THEN None    \* "fractional component exceeds decimals"
          ELSE Some(IF negative THEN 0 - wei ELSE wei)

\* !amountBN (line 70): amountBN is a BigNumber object, and an object is truthy
\* whatever number it holds.
IsFalsy(amountBN) == FALSE

\* balance && balance.value.lt(amountBN) (line 80)
\* (variant: lte in place of lt)
InsufficientBalance_lte(bal, amountBN) == bal # None /\ bal[1] <= amountBN
InsufficientBalance(bal, amountBN) == bal # None /\ bal[1] < amountBN

(***************************************************************************)
(* Toasts (lines 62-66, 71-75, 81-85, 93-96, 103-107).                     *)
(***************************************************************************)
NoToast == [title |-> "none", hash |-> "none"]
Toast(t) == [title |-> t, hash |-> "none"]
InvalidProfileToast == Toast("Invalid Profile selected.")
InvalidAmountToast == Toast("Invalid Amount")
InsufficientBalanceToast == Toast("Insufficient Balance")
ErrorToast == Toast("An Error Occurred")
\* `Transaction Hash: ${tx?.receipt.transactionHash}`: "undefined" when tx is
SuccessToast(tx) ==
    [title |-> "Funds sent successfully!",
     hash |-> IF tx = None THEN "undefined" ELSE tx[1]]

(***************************************************************************)
(* Rendering.                                                              *)
(***************************************************************************)
\* if (!address || wrongNetwork) return <connect prompt>: the rest is rendered
\* only otherwise
\* (variant: the gate tests the address alone)
PaymentUI_addressOnly(addr, wrong) == addr # None
PaymentUI(addr, wrong) == ~(addr = None \/ wrong)

\* <Button onClick={() => handlePay()} disabled={loadingPay}>
\* (variant: the button is never disabled)
PayEnabled_always(loading) == TRUE
PayEnabled(loading) == ~loading

\* useSearchProfiles({ query: debouncedSearch })
\* (variant: the raw search text is the query)
QueryArg_raw(rawSearch, debounced) == rawSearch
QueryArg(rawSearch, debounced) == debounced

\* setSearch(s) and the render it causes: useDebounce re-arms its timeout
\* when the text differs from the one of the render before, and
\* useSearchProfiles starts loading when its query differs.
Render(s) ==
    /\ search' = s
    /\ timer' = IF s # search THEN Some(0) ELSE timer
    /\ query' = QueryArg(s, debouncedSearch)
    /\ loadingProfiles' = (loadingProfiles \/ QueryArg(s, debouncedSearch) # query)
    /\ UNCHANGED <<debouncedSearch, profiles>>

Init ==
    /\ address = None
    /\ wrongNetwork = FALSE
    /\ balance = None
    /\ sdk \in BOOLEAN
    /\ switchRequest = None
    /\ search = ""
    /\ debouncedSearch = ""
    /\ timer = None
    /\ query = ""
    /\ profiles = {}
    /\ loadingProfiles = TRUE
    /\ selectedProfile = None
    /\ amount = <<>>
    /\ loadingPay = FALSE
    /\ calls = <<>>
    /\ notified = NoToast

(***************************************************************************)
(* The wallet collaborator (hooks of @thirdweb-dev/react).                 *)
(***************************************************************************)
\* <ConnectWallet />, offered when !address
Connect(w, wrong) ==
    /\ address = None
    /\ address' = Some(w)
    /\ wrongNetwork' = wrong
    /\ UNCHANGED <<balance, sdk, switchRequest>>
    /\ UNCHANGED <<searchVars, payVars>>

Disconnect ==
    /\ address # None
    /\ address' = None
    /\ wrongNetwork' = FALSE
    /\ balance' = None
    /\ UNCHANGED <<sdk, switchRequest>>
    /\ UNCHANGED <<searchVars, payVars>>

\* useBalance() refetches
BalanceUpdate(b) ==
    /\ address # None
    /\ b # balance
    /\ balance' = b
    /\ UNCHANGED <<address, wrongNetwork, sdk, switchRequest>>
    /\ UNCHANGED <<searchVars, payVars>>

\* useSDK() becomes defined / undefined
SdkChange ==
    /\ sdk' = ~sdk
    /\ UNCHANGED <<address, wrongNetwork, balance, switchRequest>>
    /\ UNCHANGED <<searchVars, payVars>>

\* the user changes network in the wallet itself
NetworkChange ==
    /\ address # None
    /\ switchRequest = None
    /\ wrongNetwork' = ~wrongNetwork
    /\ UNCHANGED <<address, balance, sdk, switchRequest>>
    /\ UNCHANGED <<searchVars, payVars>>

\* <Button onClick={() => switchChain(CHAIN.chainId)}>, rendered in the prompt
\* when wrongNetwork. IS_DEV_ENV is fixed by the build; either build may run.
ClickSwitch ==
    /\ ~PaymentUI(address, wrongNetwork)
    /\ wrongNetwork
    /\ switchRequest = None
    /\ \E isDevEnv \in BOOLEAN : switchRequest' = Some(CHAIN(isDevEnv))
    /\ UNCHANGED <<address, wrongNetwork, balance, sdk>>
    /\ UNCHANGED <<searchVars, payVars>>

\* the switchChain promise settles: the wallet switched, or the user refused
SwitchSettled(switched) ==
    /\ switchRequest # None
    /\ switchRequest' = None
    /\ wrongNetwork' = IF switched /\ address # None THEN FALSE ELSE wrongNetwork
    /\ UNCHANGED <<address, balance, sdk>>
    /\ UNCHANGED <<searchVars, payVars>>

(***************************************************************************)
(* Search.                                                                 *)
(***************************************************************************)
\* <Input value={search} onChange={(e) => setSearch(e.target.value)} />
SetSearch(text) ==
    /\ PaymentUI(address, wrongNetwork)
    /\ selectedProfile = None
    /\ text # search
    /\ Render(text)
    /\ UNCHANGED <<walletVars, payVars>>

\* time passes while the debounce timeout is armed
Tick ==
    /\ timer # None
    /\ timer[1] < DebounceDelay
    /\ timer' = Some(IF timer[1] + TickMs < DebounceDelay
                     THEN timer[1] + TickMs ELSE DebounceDelay)
    /\ UNCHANGED <<search, debouncedSearch, query, profiles, loadingProfiles>>
    /\ UNCHANGED <<walletVars, payVars>>

\* the timeout of useDebounce(search, 500) fires
DebounceFire ==
    /\ timer # None
    /\ timer[1] >= DebounceDelay
    /\ debouncedSearch' = search
    /\ timer' = None
    /\ query' = QueryArg(search, search)
    /\ loadingProfiles' = (loadingProfiles \/ QueryArg(search, search) # query)
    /\ UNCHANGED <<search, profiles>>
    /\ UNCHANGED <<walletVars, payVars>>

\* the search collaborator answers the outstanding query
SearchResolve(result) ==
    /\ loadingProfiles
    /\ profiles' = result
    /\ loadingProfiles' = FALSE
    /\ UNCHANGED <<search, debouncedSearch, timer, query>>
    /\ UNCHANGED <<walletVars, payVars>>

\* <div role="button" onClick={() => setSelectedProfile(profile)}>
SelectProfile(p) ==
    /\ PaymentUI(address, wrongNetwork)
    /\ selectedProfile = None
    /\ ~loadingProfiles
    /\ p \in profiles
    /\ selectedProfile' = Some(p)
    /\ UNCHANGED <<amount, loadingPay, calls, notified>>
    /\ UNCHANGED <<walletVars, searchVars>>

\* <ChevronLeft onClick={() => setSelectedProfile(null)} />
Back ==
    /\ PaymentUI(address, wrongNetwork)
    /\ selectedProfile # None
    /\ selectedProfile' = None
    /\ UNCHANGED <<amount, loadingPay, calls, notified>>
    /\ UNCHANGED <<walletVars, searchVars>>

\* <Input value={amount} onChange={(e) => setAmount(e.target.value)} />
SetAmount(text) ==
    /\ PaymentUI(address, wrongNetwork)
    /\ selectedProfile # None
    /\ text # amount
    /\ amount' = text
    /\ UNCHANGED <<selectedProfile, loadingPay, calls, notified>>
    /\ UNCHANGED <<walletVars, searchVars>>

(***************************************************************************)
(* handlePay (lines 57-111).                                               *)
(***************************************************************************)
\* Clear state (lines 99-101)
ClearState ==
    /\ selectedProfile' = None
    /\ amount' = <<>>
    /\ Render("")

\* catch (error) { toast(...) }: the handler touches no other state
\* (variant: the handler also clears the amount)
OnTransferError_clearAmount ==
    /\ notified' = ErrorToast
    /\ amount' = <<>>
    /\ UNCHANGED <<selectedProfile, searchVars>>
OnTransferError ==
    /\ notified' = ErrorToast
    /\ UNCHANGED <<selectedProfile, amount, searchVars>>

\* One call of handlePay, up to its return, its throw or its await. It reads
\* selectedProfile, amount, balance and sdk of the render it was created in.
handlePay ==
    LET amountBN == parseEther(amount)
    IN  IF amountBN = None
        THEN \* parseEther throws: the promise of handlePay rejects at line 59
             /\ loadingPay' = TRUE
             /\ notified' = NoToast
             /\ UNCHANGED <<selectedProfile, amount, calls, searchVars>>
        ELSE IF selectedProfile = None
        THEN /\ loadingPay' = TRUE
             /\ notified' = InvalidProfileToast
             /\ UNCHANGED <<selectedProfile, amount, calls, searchVars>>
        ELSE IF IsFalsy(amountBN[1])
        THEN /\ loadingPay' = TRUE
             /\ notified' = InvalidAmountToast
             /\ UNCHANGED <<selectedProfile, amount, calls, searchVars>>
        ELSE IF InsufficientBalance(balance, amountBN[1])
        THEN /\ loadingPay' = TRUE
             /\ notified' = InsufficientBalanceToast
             /\ UNCHANGED <<selectedProfile, amount, calls, searchVars>>
        ELSE IF sdk
        THEN \* await sdk.wallet.transfer(selectedProfile.ownedBy, amount)
             /\ Len(calls) < MaxCalls
             /\ loadingPay' = TRUE
             /\ notified' = NoToast
             /\ calls' = Append(calls, [to |-> selectedProfile[1].ownedBy,
                                       amount |-> amount,
                                       search |-> search])
             /\ UNCHANGED <<selectedProfile, amount, searchVars>>
        ELSE \* sdk?.wallet.transfer(...) is undefined: nothing is called, and
             \* the rest of the try block and the finally run at once
             /\ notified' = SuccessToast(None)
             /\ ClearState
             /\ loadingPay' = FALSE
             /\ UNCHANGED calls

\* the Pay button, rendered when a profile is selected
ClickPay ==
    /\ PaymentUI(address, wrongNetwork)
    /\ selectedProfile # None
    /\ PayEnabled(loadingPay)
    /\ handlePay
    /\ UNCHANGED walletVars

RemoveAt(seq, i) == SubSeq(seq, 1, i - 1) \o SubSeq(seq, i + 1, Len(seq))

\* wallet.transfer resolves with a receipt: lines 93-101, then finally
TransferResolve(i, hash) ==
    /\ i \in 1..Len(calls)
    /\ notified' = SuccessToast(Some(hash))
    /\ ClearState
    /\ loadingPay' = FALSE
    /\ calls' = RemoveAt(calls, i)
    /\ UNCHANGED walletVars

\* wallet.transfer throws: catch (lines 102-107), then finally
TransferReject(i) ==
    /\ i \in 1..Len(calls)
    /\ OnTransferError
    /\ loadingPay' = FALSE
    /\ calls' = RemoveAt(calls, i)
    /\ UNCHANGED walletVars

Next ==
    \/ \E w \in Wallets, wrong \in BOOLEAN : Connect(w, wrong)
    \/ Disconnect
    \/ \E b \in {None} \cup {Some(v) : v \in BalanceValues} : BalanceUpdate(b)
    \/ SdkChange
    \/ NetworkChange
    \/ ClickSwitch
    \/ \E switched \in BOOLEAN : SwitchSettled(switched)
    \/ \E text \in SearchTexts : SetSearch(text)
    \/ Tick
    \/ DebounceFire
    \/ \E result \in SearchResults : SearchResolve(result)
    \/ \E p \in Profiles : SelectProfile(p)
    \/ Back
    \/ \E text \in AmountTexts : SetAmount(text)
    \/ ClickPay
    \/ \E i \in 1..MaxCalls, hash \in TxHashes : TransferResolve(i, hash)
    \/ \E i \in 1..MaxCalls : TransferReject(i)

Spec == Init /\ [][Next]_vars

\* The debounce timeout is a browser timer: once armed, time passes and it fires.
LiveSpec == Spec /\ WF_vars(Tick) /\ WF_vars(DebounceFire)

(***************************************************************************)
(* handlePay called directly, on every combination of its inputs: the      *)
(* selected profile (or none), the amount text, the balance (or none) and  *)
(* the sdk handle.                                                         *)
(***************************************************************************)
InitPay ==
    /\ address \in {Some(w) : w \in Wallets}
    /\ wrongNetwork = FALSE
    /\ balance \in {None} \cup {Some(v) : v \in BalanceValues \cup MoreBalanceValues}
    /\ sdk \in BOOLEAN
    /\ switchRequest = None
    /\ search \in SearchTexts
    /\ debouncedSearch = search
    /\ timer = None
    /\ query = search
    /\ profiles = Profiles
    /\ loadingProfiles = FALSE
    /\ selectedProfile \in {None} \cup {Some(p) : p \in Profiles}
    /\ amount \in AmountTexts \cup MoreAmountTexts
    /\ loadingPay = FALSE
    /\ calls = <<>>
    /\ notified = NoToast

CallHandlePay ==
    /\ handlePay
    /\ UNCHANGED walletVars

NextPay ==
    \/ CallHandlePay
    \/ \E i \in 1..MaxCalls, hash \in TxHashes : TransferResolve(i, hash)
    \/ \E i \in 1..MaxCalls : TransferReject(i)

SpecPay == InitPay /\ [][NextPay]_vars

(***************************************************************************)
(* Properties.                                                             *)
(***************************************************************************)
\* the amount text parses to a strictly positive quantity
PositiveDecimal(text) == parseEther(text) # None /\ parseEther(text)[1] > 0

\* C1: once a run of handlePay is over (none is suspended at its await), the
\* in-progress flag loadingPay is false again, whatever the exit path.
C1_FlagClearedOnEveryExit == (calls = <<>>) => ~loadingPay

\* C2: handlePay, with a profile selected and an amount text that does not
\* parse to a positive decimal, shows the "Invalid Amount" toast and does not
\* call the transfer collaborator.
C2_InvalidAmountRejected ==
    [][(CallHandlePay /\ selectedProfile # None /\ ~PositiveDecimal(amount))
         => (notified' = InvalidAmountToast /\ calls' = calls)]_vars

C4_InsufficientBalance ==
    [][(CallHandlePay /\ selectedProfile # None /\ balance # None
            /\ parseEther(amount) # None)
         => IF parseEther(amount)[1] > balance[1]
            THEN notified' = InsufficientBalanceToast /\ calls' = calls
            ELSE notified' # InsufficientBalanceToast]_vars

C4_Witness ==
    /\ notified = InsufficientBalanceToast
    /\ selectedProfile # None
    /\ balance # None
    /\ parseEther(amount) # None
    /\ parseEther(amount)[1] > balance[1]
    /\ calls = <<>>

\* C5: whenever the transfer collaborator is invoked, a profile is selected
\* and the amount parses to a strictly positive quantity that does not exceed
\* the known balance.
C5_TransferOnlyWhenValid ==
    [][Len(calls') > Len(calls)
         => /\ selectedProfile # None
            /\ parseEther(amount) # None
            /\ parseEther(amount)[1] > 0
            /\ balance # None
            /\ parseEther(amount)[1] <= balance[1]]_vars

\* C6 as stated: when a transfer completes successfully, search text, selected
\* profile and amount are reset; when it fails, the three equal their values
\* at the time the transfer was submitted.
C6_Original ==
    [][\A i \in 1..Len(calls) :
         calls' = RemoveAt(calls, i)
         => IF notified'.title = "Funds sent successfully!"
            THEN search' = "" /\ selectedProfile' = None /\ amount' = <<>>
            ELSE /\ search' = calls[i].search
                 /\ amount' = calls[i].amount
                 /\ selectedProfile' # None
                 /\ selectedProfile'[1].ownedBy = calls[i].to]_vars

\* C6 as amended: when a transfer completes successfully, search text,
\* selected profile and amount are reset; when it fails, the completion of
\* handlePay changes none of the three (they keep the values they had just
\* before the failure was handled).
C6_Amended ==
    [][Len(calls') < Len(calls)
         => IF notified'.title = "Funds sent successfully!"
            THEN search' = "" /\ selectedProfile' = None /\ amount' = <<>>
            ELSE UNCHANGED <<search, selectedProfile, amount>>]_vars

C6_Witness ==
    /\ notified = ErrorToast
    /\ calls = <<>>
    /\ ~loadingPay
    /\ selectedProfile # None
    /\ amount # <<>>

\* C7: at most one transfer is outstanding at any time, and while one is
\* outstanding the in-progress flag is set (the Pay button is disabled).
C7_OneTransferAtATime ==
    /\ Len(calls) <= 1
    /\ calls # <<>> => loadingPay

C7_Witness ==
    /\ Len(calls) = 1
    /\ loadingPay
    /\ address # None /\ ~wrongNetwork
    /\ selectedProfile # None

\* C8: the search collaborator is queried with a new text only when the
\* debounce timeout has run its full 500ms since the last change of the
\* search text, and then with the search text; the query is always the
\* debounced value; every change of the search text restarts the timeout;
\* and if the search text eventually stops changing, the debounced value
\* eventually equals it for good.
C8_Debounce ==
    /\ [][query' # query
            => /\ timer = Some(DebounceDelay)
               /\ query' = search
               /\ search' = search]_vars
    /\ [](query = debouncedSearch)
    /\ [][search' # search => timer' = Some(0)]_vars
    /\ (<>[][search' = search]_vars => <>[](debouncedSearch = search))

\* after a successful payment reset the search text: the debounced value
\* still lags, and the timeout is armed
C8_Witness ==
    /\ notified.title = "Funds sent successfully!"
    /\ search = ""
    /\ debouncedSearch = "a"
    /\ query = "a"
    /\ timer # None

\* C9: search edit, profile selection, back, amount edit and pay happen only
\* while a wallet is connected on the right network, pay only with a profile
\* selected; switchChain is called only on the wrong network, and with the
\* one configured chain id.
C9_Gate ==
    /\ [][(calls' = calls
             /\ <<search, selectedProfile, amount>>' # <<search, selectedProfile, amount>>)
            => (address # None /\ ~wrongNetwork)]_vars
    /\ [][(~loadingPay /\ loadingPay')
            => (address # None /\ ~wrongNetwork /\ selectedProfile # None)]_vars
    /\ [][(switchRequest' # switchRequest /\ switchRequest' # None)
            => /\ wrongNetwork
               /\ switchRequest' = Some(PolygonZkevmTestnet)
               /\ CHAIN(TRUE) = CHAIN(FALSE)]_vars

C9_Witness ==
    /\ address # None
    /\ wrongNetwork
    /\ switchRequest = Some(PolygonZkevmTestnet)
    /\ selectedProfile # None
    /\ ~loadingPay

\* C10: the success toast is shown only for a transfer that was invoked and
\* resolved with a receipt: it carries that receipt's transaction hash.
C10_SuccessOnlyAfterTransfer ==
    notified.title = "Funds sent successfully!" => notified.hash \in TxHashes

====
